---------------------------- MODULE Spec2Model ----------------------------
(***************************************************************************)
(* A model of mcpack (src/mcpack/datapack.py): the DataPack / Namespace    *)
(* object graph, its assignment operations, and the dump / load protocol   *)
(* that maps the graph to a directory tree and back.                       *)
(*                                                                         *)
(* Strings are sequences of tokens.  A token is one character ("/", ":",   *)
(* ".", "\r", "\n") or a run of letters taken as a unit ("x", "json",      *)
(* "functions"); no letter token contains a separator, so splitting,       *)
(* suffix matching and stem computation act on tokens exactly as the       *)
(* Python string and pathlib operations act on characters.                 *)
(*                                                                         *)
(* A path (pathlib.PurePosixPath) is the sequence of its parts; the part   *)
(* <<"/">> is the root of an absolute path.  The file system maps each     *)
(* existing canonical absolute path to a node: a directory or a file.      *)
(***************************************************************************)
EXTENDS Integers, Sequences, FiniteSets, TLC

(***************************************************************************)
(* Strings                                                                 *)
(***************************************************************************)

\* str.find: the first index of token c in s, 0 when absent
RECURSIVE IndexFrom(_, _, _)
IndexFrom(s, c, i) ==
    IF i > Len(s) THEN 0
    ELSE IF s[i] = c THEN i
    ELSE IndexFrom(s, c, i + 1)

IndexOf(s, c) == IndexFrom(s, c, 1)

\* str.rfind: the last index of token c in s, 0 when absent
RECURSIVE LastIndexFrom(_, _, _)
LastIndexFrom(s, c, i) ==
    IF i < 1 THEN 0
    ELSE IF s[i] = c THEN i
    ELSE LastIndexFrom(s, c, i - 1)

LastIndexOf(s, c) == LastIndexFrom(s, c, Len(s))

\* A split at the last ":" of key instead of the first
PartitionLast(key) ==
    LET i == LastIndexOf(key, ":") IN
    IF i = 0 THEN <<key, <<>>, <<>>>>
    ELSE <<SubSeq(key, 1, i - 1), <<":">>, SubSeq(key, i + 1, Len(key))>>

\* str.partition(':'): <<head, separator, tail>>, split at the first ':'
Partition(key) ==
    LET i == IndexOf(key, ":") IN
    IF i = 0 THEN <<key, <<>>, <<>>>>
    ELSE <<SubSeq(key, 1, i - 1), <<":">>, SubSeq(key, i + 1, Len(key))>>

\* str.split('/'): the segments between slashes, empty ones included
RECURSIVE SplitSlash(_)
SplitSlash(s) ==
    LET i == IndexOf(s, "/") IN
    IF i = 0 THEN <<s>>
    ELSE <<SubSeq(s, 1, i - 1)>> \o SplitSlash(SubSeq(s, i + 1, Len(s)))

\* '/'.join(segments)
RECURSIVE JoinSlash(_)
JoinSlash(segs) ==
    IF segs = <<>> THEN <<>>
    ELSE IF Len(segs) = 1 THEN segs[1]
    ELSE segs[1] \o <<"/">> \o JoinSlash(Tail(segs))

EndsWith(s, suffix) ==
    /\ Len(s) >= Len(suffix)
    /\ SubSeq(s, Len(s) - Len(suffix) + 1, Len(s)) = suffix

(***************************************************************************)
(* pathlib: pure paths                                                     *)
(***************************************************************************)

Root == <<"/">>
DotDot == <<".", ".">>

\* PurePosixPath parsing drops empty and '.' segments and keeps '..'
RECURSIVE DropEmpty(_)
DropEmpty(segs) ==
    IF segs = <<>> THEN <<>>
    ELSE IF Head(segs) = <<>> \/ Head(segs) = <<".">> THEN DropEmpty(Tail(segs))
    ELSE <<Head(segs)>> \o DropEmpty(Tail(segs))

\* base / s: an absolute s replaces base, a relative s extends it
PathJoin(base, s) ==
    IF s # <<>> /\ s[1] = "/" THEN <<Root>> \o DropEmpty(SplitSlash(s))
    ELSE base \o DropEmpty(SplitSlash(s))

\* PurePath.parent: the path without its last part; the root is its own parent
PathParent(p) ==
    IF Len(p) <= 1 THEN p ELSE SubSeq(p, 1, Len(p) - 1)

\* PurePath.name: the last part, empty for the root
PathName(p) ==
    IF p = <<>> \/ p = <<Root>> THEN <<>> ELSE p[Len(p)]

\* PurePath.stem: the name without its last suffix; a leading or trailing
\* dot starts no suffix
Stem(name) ==
    LET i == LastIndexOf(name, ".") IN
    IF 1 < i /\ i < Len(name) THEN SubSeq(name, 1, i - 1) ELSE name

IsPrefix(p, q) == Len(p) <= Len(q) /\ SubSeq(q, 1, Len(p)) = p

(***************************************************************************)
(* The file system                                                         *)
(***************************************************************************)

NoText == <<>>
NoObj == {}
Dir == [t |-> "dir", fmt |-> "none", text |-> NoText, obj |-> NoObj]
File(c) == [t |-> "file", fmt |-> c.fmt, text |-> c.text, obj |-> c.obj]
Content(node) == [fmt |-> node.fmt, text |-> node.text, obj |-> node.obj]

Exists(fs, p) == p \in DOMAIN fs
IsDirNode(fs, p) == p \in DOMAIN fs /\ fs[p].t = "dir"
IsFileNode(fs, p) == p \in DOMAIN fs /\ fs[p].t = "file"

\* Kernel path resolution of an absolute path: every component but the last
\* must be an existing directory; '..' steps to the parent.
RECURSIVE Walk(_, _, _)
Walk(fs, cur, rest) ==
    IF rest = <<>> THEN [err |-> "", p |-> cur]
    ELSE IF ~Exists(fs, cur) THEN [err |-> "ENOENT", p |-> cur]
    ELSE IF ~IsDirNode(fs, cur) THEN [err |-> "ENOTDIR", p |-> cur]
    ELSE Walk(fs,
              IF Head(rest) = DotDot THEN PathParent(cur)
              ELSE Append(cur, Head(rest)),
              Tail(rest))

Resolve(fs, p) == Walk(fs, <<Root>>, Tail(p))

FsSet(fs, p, node) ==
    IF p \in DOMAIN fs THEN [fs EXCEPT ![p] = node] ELSE (p :> node) @@ fs

\* Path.is_dir: false on any error
IsDir(fs, p) ==
    LET r == Resolve(fs, p) IN r.err = "" /\ IsDirNode(fs, r.p)

IsFile(fs, p) ==
    LET r == Resolve(fs, p) IN r.err = "" /\ IsFileNode(fs, r.p)

\* os.mkdir
OsMkdir(fs, p) ==
    LET r == Resolve(fs, p) IN
    IF r.err # "" THEN [fs |-> fs, err |-> r.err]
    ELSE IF Exists(fs, r.p) THEN [fs |-> fs, err |-> "EEXIST"]
    ELSE [fs |-> FsSet(fs, r.p, Dir), err |-> ""]

\* Path.mkdir(parents, exist_ok)
RECURSIVE Mkdir(_, _, _, _)
Mkdir(fs, p, parents, exist_ok) ==
    LET m == OsMkdir(fs, p) IN
    IF m.err = "" THEN m
    ELSE IF m.err = "ENOENT" THEN
        IF ~parents \/ PathParent(p) = p THEN m
        ELSE LET up == Mkdir(fs, PathParent(p), TRUE, TRUE) IN
             IF up.err # "" THEN up
             ELSE Mkdir(up.fs, p, FALSE, exist_ok)
    ELSE IF ~exist_ok \/ ~IsDir(fs, p) THEN m
    ELSE [fs |-> fs, err |-> ""]

\* open(p, 'w') + write: creates or truncates the file
WriteFile(fs, p, c) ==
    LET r == Resolve(fs, p) IN
    IF r.err # "" THEN [fs |-> fs, err |-> r.err]
    ELSE IF IsDirNode(fs, r.p) THEN [fs |-> fs, err |-> "EISDIR"]
    ELSE [fs |-> FsSet(fs, r.p, File(c)), err |-> ""]

\* open(p) + read
ReadFile(fs, p) ==
    LET r == Resolve(fs, p) IN
    IF r.err # "" THEN [err |-> r.err, c |-> Content(Dir)]
    ELSE IF ~Exists(fs, r.p) THEN [err |-> "ENOENT", c |-> Content(Dir)]
    ELSE IF IsDirNode(fs, r.p) THEN [err |-> "EISDIR", c |-> Content(Dir)]
    ELSE [err |-> "", c |-> Content(fs[r.p])]

\* shutil.rmtree of an existing directory: the directory and all below it
Rmtree(fs, p) ==
    LET r == Resolve(fs, p) IN
    IF r.err # "" \/ ~IsDirNode(fs, r.p) THEN [fs |-> fs, err |-> "ENOENT"]
    ELSE [fs |-> [q \in {x \in DOMAIN fs : ~IsPrefix(r.p, x)} |-> fs[q]],
          err |-> ""]

\* Path.iterdir: the names of the entries of a directory, of either type
Iterdir(fs, p) ==
    LET r == Resolve(fs, p) IN
    {q[Len(q)] : q \in {x \in DOMAIN fs : Len(x) = Len(r.p) + 1 /\ IsPrefix(r.p, x)}}

\* Path.rglob('*' + ext): every entry below p, file or directory, whose name
\* ends with ext, as the parts that follow p
Rglob(fs, p, ext) ==
    LET r == Resolve(fs, p) IN
    {SubSeq(x, Len(r.p) + 1, Len(x)) :
        x \in {y \in DOMAIN fs : /\ Len(y) > Len(r.p)
                                 /\ IsPrefix(r.p, y)
                                 /\ EndsWith(y[Len(y)], ext)}}

(***************************************************************************)
(* Item kinds: the registry of folders, extensions and codecs              *)
(***************************************************************************)

DATA_VERSION == 1519

\* json.dumps / json.loads of an integer: its decimal text and back
IntAtom(n) ==
    CASE n = 1 -> "1" [] n = 2 -> "2" [] n = 1343 -> "1343"
      [] n = 1519 -> "1519" [] OTHER -> "0"

AtomInt(a) ==
    CASE a = "1" -> 1 [] a = "2" -> 2 [] a = "1343" -> 1343
      [] a = "1519" -> 1519 [] OTHER -> 0

\* The item types in the order of the fields of Namespace
TypeOrder ==
    <<"Advancement", "Function", "LootTable", "Recipe", "Structure",
      "BlockTag", "ItemTag", "FluidTag", "FunctionTag", "EntityTypeTag">>

Types == {TypeOrder[i] : i \in DOMAIN TypeOrder}

\* The class attribute `folder` of each type
Folder(T) ==
    CASE T = "Advancement" -> <<"advancements">>
      [] T = "Function" -> <<"functions">>
      [] T = "LootTable" -> <<"loot_tables">>
      [] T = "Recipe" -> <<"recipes">>
      [] T = "Structure" -> <<"structures">>
      [] T = "BlockTag" -> <<"tags", "/", "blocks">>
      [] T = "ItemTag" -> <<"tags", "/", "items">>
      [] T = "FluidTag" -> <<"tags", "/", "fluids">>
      [] T = "FunctionTag" -> <<"tags", "/", "functions">>
      [] T = "EntityTypeTag" -> <<"tags", "/", "entity_types">>

\* The class attribute `extension` of each type
Extension(T) ==
    CASE T = "Function" -> <<".", "mcfunction">>
      [] T = "Structure" -> <<".", "nbt">>
      [] OTHER -> <<".", "json">>

\* An item is [type, text, obj]: text is the body of a Function; obj is the
\* set of <<key path, value>> pairs of the fields of any other type, "None"
\* standing for Python's None.
Field(k, v) == <<<<k>>, v>>

\* The dataclass defaults of each type (Structure: the values __init__ sets)
DefaultObj(T) ==
    CASE T = "Advancement" ->
            {Field("display", "None"), Field("parent", "None"),
             Field("criteria", "{}"), Field("requirements", "None"),
             Field("rewards", "None")}
      [] T = "Function" -> NoObj
      [] T = "LootTable" ->
            {Field("pools", "[]"), Field("type", "generic"),
             Field("functions", "None")}
      [] T = "Recipe" ->
            {Field("type", "crafting_shaped"), Field("group", "None"),
             Field("pattern", "[]"), Field("key", "{}"),
             Field("ingredient", "None"), Field("ingredients", "None"),
             Field("result", "{}"), Field("experience", "None"),
             Field("cookingtime", "None"), Field("count", "None")}
      [] T = "Structure" ->
            {Field("DataVersion", IntAtom(DATA_VERSION)), Field("author", ""),
             Field("size", "[0,0,0]"), Field("palette", "[]"),
             Field("palettes", "[]"), Field("blocks", "[]"),
             Field("entities", "[]")}
      [] OTHER -> {Field("values", "[]"), Field("replace", "false")}

Keys(obj) == {pr[1] : pr \in obj}

\* dict.update: the entries of `new` replace those of `old` with the same key
Update(old, new) == {pr \in old : pr[1] \notin Keys(new)} \cup new

NewItem(T) == [type |-> T, text |-> NoText, obj |-> DefaultObj(T)]

\* Function(body)
NewFunction(body) == [type |-> "Function", text |-> body, obj |-> NoObj]

\* A dataclass item built with keyword arguments
NewWith(T, kwargs) == [type |-> T, text |-> NoText, obj |-> Update(DefaultObj(T), kwargs)]

\* Structure(data_version=n)
NewStructure(n) ==
    [type |-> "Structure", text |-> NoText,
     obj |-> Update(DefaultObj("Structure"), {Field("DataVersion", IntAtom(n))})]

\* The content item.dump(path) writes
Encode(item) ==
    CASE item.type = "Function" ->
            [fmt |-> "text", text |-> item.text, obj |-> NoObj]
      [] item.type = "Structure" ->
            [fmt |-> "nbt", text |-> NoText,
             obj |-> {<<<<"">> \o pr[1], pr[2]>> : pr \in item.obj}]
      [] OTHER ->
            [fmt |-> "json", text |-> NoText,
             obj |-> {pr \in item.obj : pr[2] # "None"}]

\* Text-mode reading translates '\r\n' and '\r' to '\n'
RECURSIVE UniversalNewlines(_)
UniversalNewlines(s) ==
    IF s = <<>> THEN <<>>
    ELSE IF s[1] = "\r" THEN
        IF Len(s) > 1 /\ s[2] = "\n" THEN <<"\n">> \o UniversalNewlines(SubSeq(s, 3, Len(s)))
        ELSE <<"\n">> \o UniversalNewlines(Tail(s))
    ELSE <<s[1]>> \o UniversalNewlines(Tail(s))

\* The text of a JSON document, as one token per entry
JsonText(obj) == <<"{">> \o <<"}">>

NoItem == [type |-> "", text |-> NoText, obj |-> NoObj]

\* T.load(path) applied to the content read: [err, item]
Decode(T, c) ==
    CASE T = "Function" ->
            IF c.fmt = "nbt" THEN [err |-> "UnicodeDecodeError", item |-> NoItem]
            ELSE [err |-> "",
                  item |-> NewFunction(IF c.fmt = "json" THEN JsonText(c.obj)
                                       ELSE UniversalNewlines(c.text))]
      [] T = "Structure" ->
            IF c.fmt # "nbt" THEN [err |-> "NbtError", item |-> NoItem]
            ELSE LET root == {<<Tail(pr[1]), pr[2]>> :
                                pr \in {x \in c.obj : x[1] # <<>> /\ x[1][1] = ""}}
                 IN IF ~(Keys(root) \subseteq Keys(DefaultObj(T)))
                    THEN [err |-> "SchemaError", item |-> NoItem]
                    ELSE [err |-> "",
                          item |-> [type |-> T, text |-> NoText,
                                    obj |-> Update(Update(DefaultObj(T), root),
                                                   {Field("DataVersion", IntAtom(DATA_VERSION))})]]
      [] OTHER ->
            IF c.fmt # "json" THEN [err |-> "JSONDecodeError", item |-> NoItem]
            ELSE IF ~(Keys(c.obj) \subseteq Keys(DefaultObj(T)))
            THEN [err |-> "TypeError", item |-> NoItem]
            ELSE [err |-> "",
                  item |-> [type |-> T, text |-> NoText,
                            obj |-> Update(DefaultObj(T), c.obj)]]

(***************************************************************************)
(* Ordered dictionaries (Python dicts keep insertion order)                *)
(***************************************************************************)

ODKeys(od) == {od[i].k : i \in DOMAIN od}
ODIndex(od, k) == CHOOSE i \in DOMAIN od : od[i].k = k
ODGet(od, k) == od[ODIndex(od, k)].v

\* d[k] = v: replaces the value in place, or appends a new entry
ODPut(od, k, v) ==
    IF k \in ODKeys(od) THEN [od EXCEPT ![ODIndex(od, k)].v = v]
    ELSE Append(od, [k |-> k, v |-> v])

\* The mapping an ordered dictionary denotes (dict equality ignores order)
ODMap(od) == [k \in ODKeys(od) |-> ODGet(od, k)]

(***************************************************************************)
(* Namespace                                                               *)
(***************************************************************************)

\* Namespace(): one empty mapping per item type
NewNamespace == [T \in Types |-> <<>>]

\* Namespace.__setitem__
NamespaceSetItem(ns, key, value) ==
    [ns EXCEPT ![value.type] = ODPut(@, key, value)]

\* What compares equal under Namespace.__eq__
NamespaceMap(ns) == [T \in Types |-> ODMap(ns[T])]

MkdirOp(p, exist_ok) ==
    [op |-> "mkdir", p |-> p, exist_ok |-> exist_ok, c |-> Content(Dir)]
WriteOp(p, c) == [op |-> "write", p |-> p, exist_ok |-> FALSE, c |-> c]
RmtreeOp(p) == [op |-> "rmtree", p |-> p, exist_ok |-> FALSE, c |-> Content(Dir)]

\* The file of one item: base_path / (name + extension)
ItemPath(path, T, name) == PathJoin(PathJoin(path, Folder(T)), name \o Extension(T))

\* The inner loop of Namespace.dump: a mkdir and a write per item
RECURSIVE DumpItems(_, _, _)
DumpItems(path, T, od) ==
    IF od = <<>> THEN <<>>
    ELSE LET item_path == ItemPath(path, T, Head(od).k) IN
         <<MkdirOp(PathParent(item_path), TRUE), WriteOp(item_path, Encode(Head(od).v))>>
         \o DumpItems(path, T, Tail(od))

\* Namespace.dump: the file operations it performs, in order
RECURSIVE NamespaceDumpFrom(_, _, _)
NamespaceDumpFrom(ns, path, i) ==
    IF i > Len(TypeOrder) THEN <<>>
    ELSE DumpItems(path, TypeOrder[i], ns[TypeOrder[i]])
         \o NamespaceDumpFrom(ns, path, i + 1)

NamespaceDump(ns, path) == NamespaceDumpFrom(ns, path, 1)

\* The key Namespace.load gives the entry found at base_path / rel
LoadedName(rel) ==
    JoinSlash(SubSeq(rel, 1, Len(rel) - 1) \o <<Stem(rel[Len(rel)])>>)

\* The loop over rglob's results for one type: [err, od]
RECURSIVE LoadItems(_, _, _, _)
LoadItems(fs, base, T, rels) ==
    IF rels = {} THEN [err |-> "", od |-> <<>>]
    ELSE LET rel == CHOOSE r \in rels : TRUE
             rd == ReadFile(fs, base \o rel)
             it == Decode(T, rd.c)
             rest == LoadItems(fs, base, T, rels \ {rel})
         IN IF rd.err # "" THEN [err |-> rd.err, od |-> <<>>]
            ELSE IF it.err # "" THEN [err |-> it.err, od |-> <<>>]
            ELSE IF rest.err # "" THEN rest
            ELSE [err |-> "", od |-> ODPut(rest.od, LoadedName(rel), it.item)]

\* The mapping Namespace.load builds for one type
LoadType(fs, path, T) ==
    LET base == PathJoin(path, Folder(T)) IN
    IF ~IsDir(fs, base) THEN [err |-> "", od |-> <<>>]
    ELSE LoadItems(fs, base, T, Rglob(fs, base, Extension(T)))

\* Namespace.load: [err, ns]
NamespaceLoad(fs, path) ==
    LET loaded == [T \in Types |-> LoadType(fs, path, T)] IN
    IF \E T \in Types : loaded[T].err # ""
    THEN [err |-> loaded[CHOOSE T \in Types : loaded[T].err # ""].err,
          ns |-> NewNamespace]
    ELSE [err |-> "", ns |-> [T \in Types |-> loaded[T].od]]

(***************************************************************************)
(* DataPack                                                                *)
(***************************************************************************)

\* DataPack(name, description, pack_format): no namespaces yet
NewDataPack(name, description, pack_format) ==
    [name |-> name, description |-> description, pack_format |-> pack_format,
     namespaces |-> <<>>]

\* The property mcmeta, as the JSON document write_json writes
Mcmeta(pack) ==
    [fmt |-> "json", text |-> NoText,
     obj |-> {<<<<"pack", "pack_format">>, IntAtom(pack.pack_format)>>,
              <<<<"pack", "description">>, pack.description>>}]

\* defaultdict.__getitem__: an absent key gets a fresh Namespace
Vivify(namespaces, key) ==
    IF key \in ODKeys(namespaces) THEN namespaces
    ELSE Append(namespaces, [k |-> key, v |-> NewNamespace])

\* DataPack.__getitem__: the pack afterwards (the namespace is ODGet of it)
DataPackGetItem(pack, key) ==
    [pack EXCEPT !.namespaces = Vivify(@, key)]

\* DataPack.__setitem__
DataPackSetItem(pack, key, value) ==
    LET namespace == Partition(key)[1]
        item_path == Partition(key)[3]
    IN IF item_path # <<>>
       THEN LET nss == Vivify(pack.namespaces, namespace) IN
            [pack EXCEPT !.namespaces =
                ODPut(nss, namespace, NamespaceSetItem(ODGet(nss, namespace), item_path, value))]
       ELSE [pack EXCEPT !.namespaces = ODPut(@, namespace, value)]

\* What compares equal under DataPack.__eq__
PackMap(pack) ==
    [name |-> pack.name, description |-> pack.description,
     pack_format |-> pack.pack_format,
     namespaces |-> [n \in ODKeys(pack.namespaces) |->
                        NamespaceMap(ODGet(pack.namespaces, n))]]

OutputPath(pack, path) == PathJoin(path, pack.name)
McmetaName == <<"pack", ".", "mcmeta">>
DataName == <<"data">>

\* The loop of DataPack.dump over the namespaces
RECURSIVE DumpNamespaces(_, _)
DumpNamespaces(namespaces, data_path) ==
    IF namespaces = <<>> THEN <<>>
    ELSE NamespaceDump(Head(namespaces).v, PathJoin(data_path, Head(namespaces).k))
         \o DumpNamespaces(Tail(namespaces), data_path)

\* A dump that writes the metadata after the namespaces
DataPackDumpOpsMetaLast(fs, pack, path) ==
    LET output_path == OutputPath(pack, path) IN
    (IF IsDir(fs, output_path) THEN <<RmtreeOp(output_path)>> ELSE <<>>)
    \o <<MkdirOp(output_path, FALSE)>>
    \o DumpNamespaces(pack.namespaces, PathJoin(output_path, DataName))
    \o <<WriteOp(PathJoin(output_path, McmetaName), Mcmeta(pack))>>

\* The file operations of DataPack.dump once the overwrite check has passed
DataPackDumpOps(fs, pack, path) ==
    LET output_path == OutputPath(pack, path) IN
    (IF IsDir(fs, output_path) THEN <<RmtreeOp(output_path)>> ELSE <<>>)
    \o <<MkdirOp(output_path, FALSE),
         WriteOp(PathJoin(output_path, McmetaName), Mcmeta(pack))>>
    \o DumpNamespaces(pack.namespaces, PathJoin(output_path, DataName))

ApplyOp(fs, o) ==
    CASE o.op = "rmtree" -> Rmtree(fs, o.p)
      [] o.op = "mkdir" -> Mkdir(fs, o.p, TRUE, o.exist_ok)
      [] o.op = "write" -> WriteFile(fs, o.p, o.c)

\* The file systems a run of the operations passes through: the i-th entry is
\* the state after i - 1 operations; the run stops at the first operation
\* that raises, whose effect up to the error is the entry after it.
\* [states, err]
RECURSIVE RunOps(_, _, _)
RunOps(fs, ops, i) ==
    IF i > Len(ops) THEN [states |-> <<fs>>, err |-> ""]
    ELSE LET r == ApplyOp(fs, ops[i]) IN
         IF r.err # "" THEN [states |-> <<fs, r.fs>>, err |-> r.err]
         ELSE LET rest == RunOps(r.fs, ops, i + 1) IN
              [states |-> <<fs>> \o rest.states, err |-> rest.err]

\* The number of operations of a run that complete
Completed(run) == IF run.err = "" THEN Len(run.states) - 1 ELSE Len(run.states) - 2

\* The outcome of a run in which the environment fails operation failAt (an
\* I/O error such as a full disk; 0 for none): [fs, err, done]
Outcome(run, failAt) ==
    IF failAt # 0 /\ failAt <= Completed(run) + 1
    THEN [fs |-> run.states[failAt], err |-> "EIO", done |-> failAt - 1]
    ELSE [fs |-> run.states[Len(run.states)], err |-> run.err, done |-> Completed(run)]

\* DataPack.dump(path, overwrite): the run of its file operations, none when
\* the overwrite check raises
DataPackDump(fs, pack, path, overwrite) ==
    IF IsDir(fs, OutputPath(pack, path)) /\ ~overwrite
    THEN [states |-> <<fs, fs>>, err |-> "ValueError"]
    ELSE RunOps(fs, DataPackDumpOps(fs, pack, path), 1)

HasKey(obj, k) == \E pr \in obj : pr[1] # <<>> /\ pr[1][1] = k
HasPath(obj, kp) == \E pr \in obj : pr[1] = kp
GetPath(obj, kp) == (CHOOSE pr \in obj : pr[1] = kp)[2]

\* The loop of DataPack.load over data_path.iterdir(): self[name] = ...,
\* which goes through __setitem__ and its partition of the name.  [err, namespaces]
RECURSIVE LoadNamespaces(_, _, _)
LoadNamespaces(fs, data_path, names) ==
    IF names = {} THEN [err |-> "", namespaces |-> <<>>]
    ELSE LET name == CHOOSE n \in names : TRUE
             ld == NamespaceLoad(fs, Append(data_path, name))
             rest == LoadNamespaces(fs, data_path, names \ {name})
         IN IF ld.err # "" THEN [err |-> ld.err, namespaces |-> <<>>]
            ELSE IF Partition(name)[3] # <<>> THEN [err |-> "KeyError", namespaces |-> <<>>]
            ELSE IF rest.err # "" THEN rest
            ELSE [err |-> "", namespaces |-> ODPut(rest.namespaces, Partition(name)[1], ld.ns)]

NoPack == NewDataPack(<<>>, "", 0)

\* An exception propagates to the caller, who gets no pack
Raise(err) == [err |-> err, loaded |-> <<>>]

\* A load that hands back what it has built when a namespace fails to load
DataPackLoadPartial(fs, path) ==
    LET rd == ReadFile(fs, PathJoin(path, McmetaName))
        data_path == PathJoin(path, DataName)
        nss == IF IsDir(fs, data_path)
               THEN LoadNamespaces(fs, data_path, Iterdir(fs, data_path))
               ELSE [err |-> "", namespaces |-> <<>>]
    IN IF rd.err # "" THEN Raise(rd.err)
       ELSE IF rd.c.fmt # "json" THEN Raise("JSONDecodeError")
       ELSE IF ~HasKey(rd.c.obj, "pack") THEN Raise("KeyError")
       ELSE IF ~HasPath(rd.c.obj, <<"pack", "description">>) THEN Raise("KeyError")
       ELSE IF ~HasPath(rd.c.obj, <<"pack", "pack_format">>) THEN Raise("KeyError")
       ELSE [err |-> nss.err,
             loaded |-> <<[name |-> PathName(path),
                           description |-> GetPath(rd.c.obj, <<"pack", "description">>),
                           pack_format |->
                               AtomInt(GetPath(rd.c.obj, <<"pack", "pack_format">>)),
                           namespaces |-> nss.namespaces]>>]

\* DataPack.load(path): [err, loaded], loaded holding the pack returned
DataPackLoad(fs, path) ==
    LET rd == ReadFile(fs, PathJoin(path, McmetaName))
        data_path == PathJoin(path, DataName)
        nss == IF IsDir(fs, data_path)
               THEN LoadNamespaces(fs, data_path, Iterdir(fs, data_path))
               ELSE [err |-> "", namespaces |-> <<>>]
    IN IF rd.err # "" THEN Raise(rd.err)
       ELSE IF rd.c.fmt # "json" THEN Raise("JSONDecodeError")
       ELSE IF ~HasKey(rd.c.obj, "pack") THEN Raise("KeyError")
       ELSE IF ~HasPath(rd.c.obj, <<"pack", "description">>) THEN Raise("KeyError")
       ELSE IF ~HasPath(rd.c.obj, <<"pack", "pack_format">>) THEN Raise("KeyError")
       ELSE IF nss.err # "" THEN Raise(nss.err)
       ELSE [err |-> "",
             loaded |-> <<[name |-> PathName(path),
                           description |-> GetPath(rd.c.obj, <<"pack", "description">>),
                           pack_format |->
                               AtomInt(GetPath(rd.c.obj, <<"pack", "pack_format">>)),
                           namespaces |-> nss.namespaces]>>]

(***************************************************************************)
(* The state machine: a program that builds one DataPack, dumps it under   *)
(* Target and loads pack directories back                                  *)
(***************************************************************************)

VARIABLES
    pack,   \* the DataPack under construction
    fs,     \* the file system
    last,   \* the last operation: its arguments, its outcome, the state before it
    dumped, \* <<[pack, fresh]>> while the tree under the output directory is that
            \* of a dump that completed (fresh: into a directory that did not
            \* exist), <<>> otherwise
    nops    \* the number of operations performed

vars == <<pack, fs, last, dumped, nops>>

\* The number of operations of one run
MaxOps == 3

Target == <<Root, <<"tmp">>>>

\* The test suite's list of item types (EntityTypeTag is not in it)
ALL_ITEM_TYPES ==
    <<"Advancement", "Function", "LootTable", "Recipe", "Structure",
      "BlockTag", "ItemTag", "FluidTag", "FunctionTag">>

\* The constructor calls a run starts from
PackCtors == {NewDataPack(<<"p">>, "d", 2)}

\* The 'namespace:path' keys items are assigned under
ItemKeys ==
    {<<"a", ":", "x">>,                          \* a:x
     <<"a", ":", "s", "/", "x">>,                \* a:s/x
     <<"b", ":", "x", ":", "y">>,                \* b:x:y
     <<"a", ":", ".", ".", "/", ".", ".", "/", ".", ".", "/", ".", ".", "/", "x">>}
                                                 \* a:../../../../x

\* The loops that assign one instance of each type of a list under one key
EachInputs ==
    {<<<<"test", ":", "thing", "/", "subfolder">>, ALL_ITEM_TYPES>>,
     <<<<"test", ":", ".", ".", "/", "thing">>, TypeOrder>>}

\* The keys a whole Namespace is assigned under
NamespaceKeys == {<<"a">>, <<"b", ":">>}

\* The names looked up
LookupKeys == {<<"a">>}

\* The items assigned
ItemValues == {NewFunction(<<"say hi">>), NewItem("BlockTag")}

ValidMeta ==
    [fmt |-> "json", text |-> NoText,
     obj |-> {<<<<"pack", "pack_format">>, "1">>, <<<<"pack", "description">>, "">>}]
JsonDoc(obj) == [fmt |-> "json", text |-> NoText, obj |-> obj]
TextDoc(text) == [fmt |-> "text", text |-> text, obj |-> NoObj]

AbsPath(s) == PathJoin(<<Root>>, s)

\* The directories and files present before the run: pack directories made
\* by other tools or by hand, sound and broken.  "stray" is a sound pack with
\* a plain file in data/, an empty namespace directory, nested subfolders, a
\* file of another extension and most kind folders absent.
InitialDirs ==
    {AbsPath(<<"/">>),
     AbsPath(<<"/", "tmp">>),
     AbsPath(<<"/", "tmp", "/", "nometa">>),
     AbsPath(<<"/", "tmp", "/", "badmeta">>),
     AbsPath(<<"/", "tmp", "/", "nopack">>),
     AbsPath(<<"/", "tmp", "/", "nodesc">>),
     AbsPath(<<"/", "tmp", "/", "noformat">>),
     AbsPath(<<"/", "tmp", "/", "stray", "/", "data", "/", "empty">>),
     AbsPath(<<"/", "tmp", "/", "dirext">>),
     AbsPath(<<"/", "tmp", "/", "dirext", "/", "data">>),
     AbsPath(<<"/", "tmp", "/", "dirext", "/", "data", "/", "a">>),
     AbsPath(<<"/", "tmp", "/", "dirext", "/", "data", "/", "a", "/", "functions">>),
     AbsPath(<<"/", "tmp", "/", "dirext", "/", "data", "/", "a", "/", "functions", "/",
               "x", ".", "mcfunction">>),
     AbsPath(<<"/", "tmp", "/", "baditem">>),
     AbsPath(<<"/", "tmp", "/", "baditem", "/", "data">>),
     AbsPath(<<"/", "tmp", "/", "baditem", "/", "data", "/", "a">>),
     AbsPath(<<"/", "tmp", "/", "baditem", "/", "data", "/", "a", "/", "functions">>),
     AbsPath(<<"/", "tmp", "/", "baditem", "/", "data", "/", "b">>),
     AbsPath(<<"/", "tmp", "/", "baditem", "/", "data", "/", "b", "/", "recipes">>),
     AbsPath(<<"/", "tmp", "/", "stray">>),
     AbsPath(<<"/", "tmp", "/", "stray", "/", "data">>),
     AbsPath(<<"/", "tmp", "/", "stray", "/", "data", "/", "minecraft">>),
     AbsPath(<<"/", "tmp", "/", "stray", "/", "data", "/", "minecraft", "/", "functions">>),
     AbsPath(<<"/", "tmp", "/", "stray", "/", "data", "/", "minecraft", "/", "functions",
               "/", "s">>),
     AbsPath(<<"/", "tmp", "/", "stray", "/", "data", "/", "minecraft", "/", "functions",
               "/", "s", "/", "t">>),
     AbsPath(<<"/", "tmp", "/", "stray", "/", "data", "/", "minecraft", "/", "tags">>),
     AbsPath(<<"/", "tmp", "/", "stray", "/", "data", "/", "minecraft", "/", "tags", "/",
               "functions">>)}

InitialFiles ==
    {<<AbsPath(<<"/", "tmp", "/", "badmeta", "/", "pack", ".", "mcmeta">>),
       TextDoc(<<"not json">>)>>,
     <<AbsPath(<<"/", "tmp", "/", "nopack", "/", "pack", ".", "mcmeta">>),
       JsonDoc({})>>,
     <<AbsPath(<<"/", "tmp", "/", "nodesc", "/", "pack", ".", "mcmeta">>),
       JsonDoc({<<<<"pack", "pack_format">>, "1">>})>>,
     <<AbsPath(<<"/", "tmp", "/", "noformat", "/", "pack", ".", "mcmeta">>),
       JsonDoc({<<<<"pack", "description">>, "">>})>>,
     <<AbsPath(<<"/", "tmp", "/", "stray", "/", "data", "/", "readme">>),
       TextDoc(<<"notes">>)>>,
     <<AbsPath(<<"/", "tmp", "/", "dirext", "/", "pack", ".", "mcmeta">>), ValidMeta>>,
     <<AbsPath(<<"/", "tmp", "/", "dirext", "/", "data", "/", "a", "/", "functions", "/",
                 "x", ".", "mcfunction", "/", "y", ".", "mcfunction">>),
       TextDoc(<<"say y">>)>>,
     <<AbsPath(<<"/", "tmp", "/", "baditem", "/", "pack", ".", "mcmeta">>), ValidMeta>>,
     <<AbsPath(<<"/", "tmp", "/", "baditem", "/", "data", "/", "a", "/", "functions", "/",
                 "x", ".", "mcfunction">>),
       TextDoc(<<"say x">>)>>,
     <<AbsPath(<<"/", "tmp", "/", "baditem", "/", "data", "/", "b", "/", "recipes", "/",
                 "r", ".", "json">>),
       JsonDoc({Field("values", "[]")})>>,
     <<AbsPath(<<"/", "tmp", "/", "stray", "/", "pack", ".", "mcmeta">>), ValidMeta>>,
     <<AbsPath(<<"/", "tmp", "/", "stray", "/", "data", "/", "minecraft", "/", "functions",
                 "/", "s", "/", "t", "/", "x", ".", "mcfunction">>),
       TextDoc(<<"say x">>)>>,
     <<AbsPath(<<"/", "tmp", "/", "stray", "/", "data", "/", "minecraft", "/", "functions",
                 "/", "readme", ".", "txt">>),
       TextDoc(<<"notes">>)>>,
     <<AbsPath(<<"/", "tmp", "/", "stray", "/", "data", "/", "minecraft", "/", "tags", "/",
                 "functions", "/", "load", ".", "json">>),
       JsonDoc({Field("values", "[demo:hello]")})>>}

InitialTree ==
    [p \in InitialDirs \cup {f[1] : f \in InitialFiles} |->
        IF p \in InitialDirs THEN Dir
        ELSE File((CHOOSE f \in InitialFiles : f[1] = p)[2])]

\* The directories load is called on besides the pack's own output directory
OtherPacks ==
    {<<"nometa">>, <<"badmeta">>, <<"nopack">>, <<"nodesc">>, <<"noformat">>,
     <<"stray">>, <<"dirext">>, <<"baditem">>}

\* The empty file system, where `last` records none
NoFs == [p \in {} |-> Dir]

NoLast ==
    [op |-> "init", key |-> <<>>, item |-> NoItem, types |-> <<>>,
     overwrite |-> FALSE, failAt |-> 0, path |-> <<>>,
     err |-> "", done |-> 0, loaded |-> <<>>,
     prePack |-> NoPack, preFs |-> NoFs]

Init ==
    /\ pack \in PackCtors
    /\ fs = InitialTree
    /\ last = NoLast
    /\ dumped = <<>>
    /\ nops = 0

Record(op) == [NoLast EXCEPT !.op = op]

\* pack[key] = item
Assign(key, item) ==
    /\ nops < MaxOps
    /\ pack' = DataPackSetItem(pack, key, item)
    /\ last' = [Record("assign") EXCEPT !.key = key, !.item = item, !.prePack = pack]
    /\ nops' = nops + 1
    /\ UNCHANGED <<fs, dumped>>

\* pack[key] = Namespace()
AssignNamespace(key) ==
    /\ nops < MaxOps
    /\ pack' = DataPackSetItem(pack, key, NewNamespace)
    /\ last' = [Record("assign_namespace") EXCEPT !.key = key, !.prePack = pack]
    /\ nops' = nops + 1
    /\ UNCHANGED <<fs, dumped>>

\* for item_type in types: pack[key] = item_type()
RECURSIVE SetEach(_, _, _)
SetEach(pk, key, types) ==
    IF types = <<>> THEN pk
    ELSE SetEach(DataPackSetItem(pk, key, NewItem(Head(types))), key, Tail(types))

AssignEach(key, types) ==
    /\ nops < MaxOps
    /\ pack' = SetEach(pack, key, types)
    /\ last' = [Record("assign_each") EXCEPT !.key = key, !.types = types,
                                                !.prePack = pack]
    /\ nops' = nops + 1
    /\ UNCHANGED <<fs, dumped>>

\* pack[key]
Lookup(key) ==
    /\ nops < MaxOps
    /\ pack' = DataPackGetItem(pack, key)
    /\ last' = [Record("lookup") EXCEPT !.key = key, !.prePack = pack]
    /\ nops' = nops + 1
    /\ UNCHANGED <<fs, dumped>>

\* pack.dump(Target, overwrite); the environment may fail any one of the
\* file operations the dump reaches
Dump(overwrite) ==
    /\ nops < MaxOps
    /\ \E run \in {DataPackDump(fs, pack, Target, overwrite)} :
        \E failAt \in 0..(IF run.err = "ValueError" THEN 0 ELSE Len(run.states) - 1) :
            \E r \in {Outcome(run, failAt)} :
                /\ fs' = r.fs
                /\ last' = [Record("dump") EXCEPT !.overwrite = overwrite,
                                                  !.failAt = failAt, !.path = Target,
                                                  !.err = r.err, !.done = r.done,
                                                  !.preFs = fs]
                /\ dumped' = IF r.err = ""
                              THEN <<[pack |-> pack,
                                      fresh |-> ~IsDir(fs, OutputPath(pack, Target))]>>
                              ELSE IF r.err = "ValueError" THEN dumped
                              ELSE <<>>
    /\ nops' = nops + 1
    /\ UNCHANGED pack

\* DataPack.load(path)
Load(path) ==
    /\ nops < MaxOps
    /\ \E r \in {DataPackLoad(fs, path)} :
        last' = [Record("load") EXCEPT !.path = path, !.err = r.err,
                                       !.loaded = r.loaded, !.preFs = fs]
    /\ nops' = nops + 1
    /\ UNCHANGED <<pack, fs, dumped>>

Next ==
    \/ \E key \in ItemKeys, item \in ItemValues : Assign(key, item)
    \/ \E key \in NamespaceKeys : AssignNamespace(key)
    \/ \E e \in EachInputs : AssignEach(e[1], e[2])
    \/ \E key \in LookupKeys : Lookup(key)
    \/ \E overwrite \in BOOLEAN : Dump(overwrite)
    \/ Load(OutputPath(pack, Target))
    \/ \E name \in OtherPacks : Load(Append(Target, name))

Spec == Init /\ [][Next]_vars

(***************************************************************************)
(* Vocabulary of the properties, stated on keys, packs and trees directly  *)
(***************************************************************************)

\* The output directory of the pack
PackRoot == OutputPath(pack, Target)

\* The position of the first ":" of key, 0 when it has none
FirstColon(key) ==
    IF \E i \in DOMAIN key : key[i] = ":"
    THEN CHOOSE i \in DOMAIN key : key[i] = ":" /\ \A j \in 1..(i - 1) : key[j] # ":"
    ELSE 0

KeyNamespace(key) ==
    IF FirstColon(key) = 0 THEN key ELSE SubSeq(key, 1, FirstColon(key) - 1)

KeyPath(key) ==
    IF FirstColon(key) = 0 THEN <<>> ELSE SubSeq(key, FirstColon(key) + 1, Len(key))

Names(pk) == ODKeys(pk.namespaces)

\* Every (namespace, kind, path, item) entry of a pack
PackEntries(pk) ==
    UNION {UNION {{<<n, T, k, ODGet(ODGet(pk.namespaces, n)[T], k)>> :
                      k \in ODKeys(ODGet(pk.namespaces, n)[T])} : T \in Types} :
           n \in Names(pk)}

SameHeader(pk, qk) ==
    /\ pk.name = qk.name
    /\ pk.description = qk.description
    /\ pk.pack_format = qk.pack_format

\* C4: DataPack.assign routing.  The key is split on its first colon.  With a
\* path remainder the value is stored under that path in the mapping of its
\* kind in namespaces[namespace], the namespace being created if absent, and
\* every other namespace and every other (kind, path) entry is unchanged.
\* Without a remainder namespaces[key] is replaced wholesale by the value and
\* every other namespace is unchanged.
C4_AssignRouting ==
    /\ last.op = "assign" =>
        LET n == KeyNamespace(last.key)
            p == KeyPath(last.key)
            T == last.item.type
        IN /\ p # <<>>
           /\ SameHeader(pack, last.prePack)
           /\ Names(pack) = Names(last.prePack) \cup {n}
           /\ PackEntries(pack) =
                {e \in PackEntries(last.prePack) : ~(e[1] = n /\ e[2] = T /\ e[3] = p)}
                \cup {<<n, T, p, last.item>>}
    /\ last.op = "assign_namespace" =>
        LET n == KeyNamespace(last.key) IN
        /\ KeyPath(last.key) = <<>>
        /\ SameHeader(pack, last.prePack)
        /\ Names(pack) = Names(last.prePack) \cup {n}
        /\ ODGet(pack.namespaces, n) = NewNamespace
        /\ \A m \in Names(last.prePack) \ {n} :
              ODGet(pack.namespaces, m) = ODGet(last.prePack.namespaces, m)

\* An item is assigned under a key that holds two colons while another
\* namespace already holds entries
C4_Witness ==
    /\ last.op = "assign"
    /\ FirstColon(last.key) # LastIndexOf(last.key, ":")
    /\ \E e \in PackEntries(last.prePack) : e[1] # KeyNamespace(last.key)

\* The metadata file of the pack directory at path is absent, is no JSON
\* document, or lacks the pack, description or pack_format key
MetaBroken(tree, path) ==
    LET m == Append(path, McmetaName) IN
    \/ ~IsFileNode(tree, m)
    \/ tree[m].fmt # "json"
    \/ ~\E pr \in tree[m].obj : pr[1] # <<>> /\ pr[1][1] = "pack"
    \/ ~\E pr \in tree[m].obj : pr[1] = <<"pack", "description">>
    \/ ~\E pr \in tree[m].obj : pr[1] = <<"pack", "pack_format">>

\* C5: load failure.  DataPack.load fails when pack.mcmeta is absent,
\* unparsable, or lacks the pack, description or pack_format key; a load that
\* fails, on the metadata or on an item file, returns no DataPack at all; and
\* a load leaves the directory tree unchanged.
C5_LoadFailure ==
    last.op = "load" =>
        /\ MetaBroken(last.preFs, last.path) => last.err # ""
        /\ last.err # "" => last.loaded = <<>>
        /\ last.err = "" => Len(last.loaded) = 1
        /\ fs = last.preFs

\* A load whose metadata is sound fails on an item file after another
\* namespace has been read
C5_Witness ==
    /\ last.op = "load"
    /\ ~MetaBroken(last.preFs, last.path)
    /\ last.err = "TypeError"
    /\ last.loaded = <<>>

\* The names of the entries of directory d of a tree that are directories
Subdirectories(tree, d) ==
    {q[Len(q)] : q \in {x \in DOMAIN tree : /\ Len(x) = Len(d) + 1
                                             /\ IsPrefix(d, x)
                                             /\ tree[x].t = "dir"}}

\* The regular files of a tree below directory d, as the parts that follow d
FilesBelow(tree, d) ==
    {SubSeq(q, Len(d) + 1, Len(q)) :
        q \in {x \in DOMAIN tree : /\ Len(x) > Len(d)
                                   /\ IsPrefix(d, x)
                                   /\ tree[x].t = "file"}}

\* The folder of kind T in the namespace directory n of the pack at path
KindFolder(path, n, T) == Append(Append(path, DataName), n) \o SplitSlash(Folder(T))

\* C6: namespace discovery on load.  After a successful load the namespace
\* names of the returned pack are exactly the names of the immediate
\* subdirectories of sourcePath/data: an entry of data/ that is not a
\* directory contributes no namespace, an absent data/ yields none.
C6_NamespaceDiscovery ==
    (last.op = "load" /\ last.err = "") =>
        Names(last.loaded[1]) = Subdirectories(last.preFs, Append(last.path, DataName))

\* The files of kind T below its folder: those whose name ends with the
\* extension of T
KindFiles(tree, path, n, T) ==
    {rel \in FilesBelow(tree, KindFolder(path, n, T)) :
        EndsWith(rel[Len(rel)], Extension(T))}

\* The key of such a file: the slash-joined subfolder segments plus the file
\* name with the extension stripped
KeyOfFile(rel, T) ==
    JoinSlash(SubSeq(rel, 1, Len(rel) - 1)
              \o <<SubSeq(rel[Len(rel)], 1, Len(rel[Len(rel)]) - Len(Extension(T)))>>)

\* Every file of every kind of the pack directory at path holds a document
\* its kind accepts
AllItemFilesDecode(tree, path) ==
    \A n \in Subdirectories(tree, Append(path, DataName)), T \in Types :
        \A rel \in KindFiles(tree, path, n, T) :
            Decode(T, Content(tree[KindFolder(path, n, T) \o rel])).err = ""

\* C7: Namespace.load inverts the path mapping of Namespace.dump.  Loading a
\* pack directory whose metadata is sound and whose item files all decode
\* succeeds, and the mapping of every kind of every namespace directory holds
\* exactly one entry per file below the folder of the kind whose name ends
\* with its extension, keyed by the subfolder segments and the stripped file
\* name (none when the folder is absent); so every item dumped at path p is
\* reloaded under the key p.
C7_LoadInvertsDump ==
    (/\ last.op = "load"
     /\ ~MetaBroken(last.preFs, last.path)
     /\ AllItemFilesDecode(last.preFs, last.path)) =>
        /\ last.err = ""
        /\ \A n \in Subdirectories(last.preFs, Append(last.path, DataName)), T \in Types :
              /\ n \in Names(last.loaded[1])
              /\ ODKeys(ODGet(last.loaded[1].namespaces, n)[T])
                    = {KeyOfFile(rel, T) : rel \in KindFiles(last.preFs, last.path, n, T)}
        /\ (last.path = PackRoot /\ dumped # <<>>) =>
              \A e \in PackEntries(dumped[1].pack) :
                  /\ e[1] \in Names(last.loaded[1])
                  /\ e[3] \in ODKeys(ODGet(last.loaded[1].namespaces, e[1])[e[2]])

\* C1: full-pack round trip.  Dumping a pack into a directory where
\* targetPath/name does not yet exist and then loading targetPath/name yields
\* a pack equal to the dumped one in name, description, pack_format and
\* namespace mapping.
C1_RoundTrip ==
    (/\ last.op = "load"
     /\ last.path = PackRoot
     /\ dumped # <<>>
     /\ dumped[1].fresh) =>
        /\ last.err = ""
        /\ PackMap(last.loaded[1]) = PackMap(dumped[1].pack)

\* C9: namespace names survive a round trip.  After any assignments and
\* lookups, dump followed by load yields a pack whose set of namespace names
\* equals that of the dumped pack, namespaces without items included.
C9_NamesSurvive ==
    (/\ last.op = "load"
     /\ last.path = PackRoot
     /\ dumped # <<>>) =>
        /\ last.err = ""
        /\ Names(last.loaded[1]) = Names(dumped[1].pack)

\* The paths at which two trees differ
Touched(before, after) ==
    {q \in DOMAIN before \cup DOMAIN after :
        \/ q \notin DOMAIN before
        \/ q \notin DOMAIN after
        \/ before[q] # after[q]}

\* C10: write containment.  Everything a dump creates, writes or removes lies
\* inside the pack root, itself strictly below targetPath; after a dump that
\* completes every entry of the pack has its file inside its own kind folder
\* root/data/<namespace>/<folder>/, and distinct entries have distinct files.
C10_WriteContainment ==
    last.op = "dump" =>
        /\ IsPrefix(Target, PackRoot) /\ Len(PackRoot) > Len(Target)
        /\ \A q \in Touched(last.preFs, fs) : IsPrefix(PackRoot, q)
        /\ last.err = "" =>
              /\ \A e \in PackEntries(pack) :
                    \E rel \in KindFiles(fs, PackRoot, e[1], e[2]) :
                        Content(fs[KindFolder(PackRoot, e[1], e[2]) \o rel]) = Encode(e[4])
              /\ Cardinality(FilesBelow(fs, Append(PackRoot, DataName)))
                    = Cardinality(PackEntries(pack))

\* The file the entry (n, T, p) of a pack is declared to occupy
DeclaredFile(n, T, p) ==
    LET segs == SplitSlash(p) IN
    <<DataName, n>> \o SplitSlash(Folder(T))
    \o SubSeq(segs, 1, Len(segs) - 1) \o <<segs[Len(segs)] \o Extension(T)>>

\* C3: overwrite guard.  When targetPath/name already exists, a dump without
\* overwrite fails with the already-exists error and leaves the tree
\* unchanged; a dump with overwrite succeeds, and afterwards targetPath/name
\* holds exactly the files of the dumped pack: the metadata and one file per
\* item, nothing of the previous tree.
C3_OverwriteGuard ==
    (last.op = "dump" /\ IsDir(last.preFs, PackRoot)) =>
        /\ ~last.overwrite => (last.err = "ValueError" /\ fs = last.preFs)
        /\ (last.overwrite /\ last.failAt = 0) =>
              /\ last.err = ""
              /\ FilesBelow(fs, PackRoot)
                    = {<<McmetaName>>}
                      \cup {DeclaredFile(e[1], e[2], e[3]) : e \in PackEntries(pack)}
              /\ IsFileNode(fs, Append(PackRoot, McmetaName))
              /\ fs[Append(PackRoot, McmetaName)] = File(Mcmeta(pack))

\* Every kind of types holds exactly the path p in namespace n of pk, mapped
\* to a default instance of the kind
EachShape(pk, n, p, types) ==
    /\ n \in Names(pk)
    /\ \A i \in DOMAIN types :
          ODMap(ODGet(pk.namespaces, n)[types[i]]) = (p :> NewItem(types[i]))

\* C2: cross-kind path collision isolation.  When one relative path is
\* assigned to one instance of every kind within one namespace, the mapping of
\* each kind holds exactly that path mapped to its own instance, and after
\* dump followed by load the mapping of each kind again holds exactly that
\* path mapped to an equal instance.
C2_CrossKindIsolation ==
    /\ (last.op = "assign_each" /\ KeyNamespace(last.key) \notin Names(last.prePack)) =>
          EachShape(pack, KeyNamespace(last.key), KeyPath(last.key), last.types)
    /\ (last.op = "load" /\ last.path = PackRoot /\ dumped # <<>>) =>
          \A e \in EachInputs :
              EachShape(dumped[1].pack, KeyNamespace(e[1]), KeyPath(e[1]), e[2]) =>
                  /\ last.err = ""
                  /\ EachShape(last.loaded[1], KeyNamespace(e[1]), KeyPath(e[1]), e[2])

\* The last operation is a dump with overwrite onto an existing output
\* directory that failed after the removal of the old tree
FailedAfterRemoval ==
    /\ last.op = "dump"
    /\ last.overwrite
    /\ IsDir(last.preFs, PackRoot)
    /\ last.err # ""
    /\ last.done >= 1

\* The tree below the output directory is what it was before the dump
OldIntact == \A q \in Touched(last.preFs, fs) : ~IsPrefix(PackRoot, q)

\* The output directory holds the metadata and the file of every entry
NewComplete ==
    /\ IsDirNode(fs, PackRoot)
    /\ IsFileNode(fs, Append(PackRoot, McmetaName))
    /\ \A e \in PackEntries(pack) :
          IsFile(fs, PackRoot \o DeclaredFile(e[1], e[2], e[3]))

=============================================================================
